---- MODULE Spec2Model ----
(***************************************************************************)
(* A model of imagegrid (src/src/main.rs): the thumbnail signature cache,  *)
(* the two distance metrics, the linear-scan chunk matcher, the crop, the  *)
(* fan-out of one match task per grid cell and the sequential compositor.  *)
(*                                                                         *)
(* Image decoding, resizing, globbing and (de)serialisation are external:  *)
(* a decoded thumbnail is summarised by one colour, and resizing a         *)
(* single-colour image to res x res yields res*res samples of that colour. *)
(***************************************************************************)
EXTENDS Integers, Sequences, FiniteSets, TLC

VARIABLES
  pc,               \* main's position (a line of main), or "exit" / "panic"
  exit_status,      \* -1 while running; 0, 1, 2 as passed to exit; 101 for a panic
  algorithm,        \* args.algorithm / COMPARISON_FN
  sampleres,        \* args.sampleres
  thumbsize,        \* args.thumbsize
  dpr,              \* args.dpr
  thumbdata,        \* the file ./thumbdata: [state, thumbs], state "missing",
                    \* "corrupt" or "valid"
  thumbdata_writes, \* the contents handed to fs::write(thumb_data_path, ..), in order
  loaded_db,        \* thumbs_db as it stood at line 84, after the cache load
  dir,              \* the glob: [pattern_ok, entries, next], next the index of
                    \* the entry dir.next() yields next
  thumbs_db,        \* thumbs_db.thumbs
  dirty_thumbs_db,  \* dirty_thumbs_db
  target,           \* the target image: [read, decoded, width, height, pattern]
  crop,             \* [x, y, width, height] given to image.crop
  chunks,           \* [x, y, n]: x_chunks, y_chunks, chunks
  tasks,            \* the JoinSet: grid cell -> [st, spawned, results, joined, best]
  thumbs_cache,     \* thumbs_cache: path -> side of the cached resized image
  cache_loads,      \* path -> number of load_image calls made by the compositor
  target_image,     \* the output canvas: [width, height, px], px: pixel -> path
  seen_chunks,      \* seen_chunks
  output_written,   \* whether target_image.save returned Ok
  pixels,           \* (matcher harness) the query signature
  best_match,       \* (matcher harness) process_chunk's result: an index, 0 for None
  width,            \* (crop harness) image width
  height,           \* (crop harness) image height
  previous_run      \* the run of main before this one, over the same files:
                    \* [ran, imported, writes]

vars == <<pc, exit_status, algorithm, sampleres, thumbsize, dpr, thumbdata,
          thumbdata_writes, loaded_db, dir, thumbs_db, dirty_thumbs_db, target,
          crop, chunks, tasks, thumbs_cache, cache_loads, target_image,
          seen_chunks, output_written, pixels, best_match, width, height, previous_run>>

----------------------------------------------------------------------------
(* Integer types *)

\* i32::MAX, the sentinel of compare_thumbs_u8 and the first best_score
I32Max == 2147483647

\* f32::MAX in the scale of the perceptual scores below (hundredths, squared):
\* every finite sum the model can form is smaller
F32Max == 2147483646

Min(a, b) == IF a < b THEN a ELSE b

\* x.pow(2)
Pow2(x) == x * x

\* a + b on i32 in two's complement, as a release build computes it
WrappingAdd(a, b) ==
  IF a > 0 /\ b > 0 /\ a > I32Max - b
    THEN ((a - I32Max) - 1) + ((b - I32Max) - 1)
  ELSE IF a < 0 /\ b < 0 /\ a < ((-I32Max) - 1) - b
    THEN ((a + I32Max) + 1) + ((b + I32Max) + 1)
  ELSE a + b

----------------------------------------------------------------------------
(* Colours and signatures *)

Black == <<0, 0, 0>>
White == <<255, 255, 255>>
Amber == <<255, 181, 16>>
Soot  == <<2, 1, 0>>

\* a signature of n samples of one colour
Uniform(c, n) == [i \in 1..n |-> c]

\* srgb_to_oklab followed by lab_to_f32, in hundredths
lab_to_f32(v) ==
  CASE v = Black -> <<0, 0, 0>>
    [] v = White -> <<100, 0, 0>>
    [] v = Amber -> <<82, 3, 17>>
    [] v = Soot  -> <<7, 0, 1>>

\* sampleres of the large signatures: 105 * 105 = 11025 samples
BigRes == 105

\* one amber sample, one soot, 15 black, then 11008 white: its squared distance
\* to an all-black signature is 33025 * 255^2 + 181^2 + 16^2 + 2^2 + 1^2
BigEdge ==
  [i \in 1..(BigRes * BigRes) |->
     IF i = 1 THEN Amber
     ELSE IF i = 2 THEN Soot
     ELSE IF i <= 17 THEN Black
     ELSE White]

----------------------------------------------------------------------------
(* Distance engine *)

\* !n on usize, read as a two's complement integer: the bit patterns of !n and m
\* are equal exactly when BitNot(n) = m, m being a length (0 <= m <= isize::MAX)
BitNot(n) == (-n) - 1

\* a loop body that leaves the first channel's difference unsquared
SquaredDiffU8FirstUnsquared(x, y) ==
  (x[1] - y[1]) + Pow2(x[2] - y[2]) + Pow2(x[3] - y[3])

\* the body of the for loop of compare_thumbs_u8 for one zipped pair
SquaredDiffU8(x, y) ==
  Pow2(x[1] - y[1]) + Pow2(x[2] - y[2]) + Pow2(x[3] - y[3])

\* diff after the loop has run over zip(a, b)[lo..hi]: wrap is the i32 a release
\* build holds, of whether some += overflowed (a debug build panics there).
\* The terms are >= 0 and two's complement addition is associative, so halving the
\* range gives the loop's own left-to-right result.
RECURSIVE AccumulateU8(_, _, _, _)
AccumulateU8(a, b, lo, hi) ==
  IF lo > hi THEN [wrap |-> 0, of |-> FALSE]
  ELSE IF lo = hi THEN [wrap |-> SquaredDiffU8(a[lo], b[lo]), of |-> FALSE]
  ELSE LET mid == (lo + hi) \div 2
           l == AccumulateU8(a, b, lo, mid)
           r == AccumulateU8(a, b, mid + 1, hi)
       IN [wrap |-> WrappingAdd(l.wrap, r.wrap),
           of   |-> l.of \/ r.of \/ l.wrap > I32Max - r.wrap]

\* zip(a, b) stops at the shorter of the two
ZipLen(a, b) == Min(Len(a), Len(b))

\* the length guard as written: `!a.len() == b.len()`
LenGuard(a, b) == BitNot(Len(a)) = Len(b)

compare_thumbs_u8(a, b) ==
  IF LenGuard(a, b) THEN I32Max
  ELSE AccumulateU8(a, b, 1, ZipLen(a, b)).wrap

\* whether `diff +=` overflows i32 somewhere in compare_thumbs_u8(a, b)
OverflowsU8(a, b) ==
  ~LenGuard(a, b) /\ AccumulateU8(a, b, 1, ZipLen(a, b)).of

SquaredDiffF32(x, y) ==
  Pow2(x[1] - y[1]) + Pow2(x[2] - y[2]) + Pow2(x[3] - y[3])

RECURSIVE AccumulateF32(_, _, _, _)
AccumulateF32(a, b, lo, hi) ==
  IF lo > hi THEN 0
  ELSE IF lo = hi THEN SquaredDiffF32(a[lo], b[lo])
  ELSE LET mid == (lo + hi) \div 2
       IN AccumulateF32(a, b, lo, mid) + AccumulateF32(a, b, mid + 1, hi)

compare_thumbs_f32(a, b) ==
  IF LenGuard(a, b) THEN F32Max
  ELSE AccumulateF32(a, b, 1, ZipLen(a, b))

compare_thumbs_oklab(a, b) ==
  LET a_rgb == [i \in 1..Len(a) |-> lab_to_f32(a[i])]
      b_rgb == [i \in 1..Len(b) |-> lab_to_f32(b[i])]
  IN compare_thumbs_f32(a_rgb, b_rgb)

----------------------------------------------------------------------------
(* Chunk matcher *)

Algorithms == {"Rgb", "Oklab"}

\* the score one loop iteration of process_chunk computes for ref_thumb
Score(algo, px, ref_thumb) ==
  IF algo = "Oklab" THEN compare_thumbs_oklab(px, ref_thumb.colors)
  ELSE compare_thumbs_u8(px, ref_thumb.colors)

\* best_score before the loop
InitialBestScore(algo) == IF algo = "Oklab" THEN F32Max ELSE I32Max

\* `if score < best_score`
Improves(score, best_score) == score < best_score

\* the for loop over thumbs_db.thumbs from record i on; best_match is an index
\* into the database, 0 for None
RECURSIVE Scan(_, _, _, _, _, _)
Scan(algo, px, db, i, best_score, best) ==
  IF i > Len(db) THEN best
  ELSE LET score == Score(algo, px, db[i])
       IN IF Improves(score, best_score)
            THEN Scan(algo, px, db, i + 1, score, i)
            ELSE Scan(algo, px, db, i + 1, best_score, best)

process_chunk(px, db, algo) == Scan(algo, px, db, 1, InitialBestScore(algo), 0)

\* whether a debug build panics on arithmetic overflow inside process_chunk
ChunkOverflows(px, db, algo) ==
  algo = "Rgb" /\ \E i \in 1..Len(db) : OverflowsU8(px, db[i].colors)

\* what a match task can end with: the index of the winner, or a panic (best 0)
\* when process_chunk returns None (the unwrap at line 215) or, in a build with
\* overflow checks, when `diff +=` overflows
TaskOutcomes(px, db, algo) ==
  LET best == process_chunk(px, db, algo) IN
  {[panicked |-> best = 0, best |-> best]}
  \cup (IF ChunkOverflows(px, db, algo) THEN {[panicked |-> TRUE, best |-> 0]}
        ELSE {})

----------------------------------------------------------------------------
(* Bounds and input sets *)

\* longest sequence the glob iterator yields
MaxGlob == 2
\* largest width and height of the decoded target image
MaxDim == 2
\* most grid cells of a run
MaxChunks == 4
\* most records of a database handed to the matcher harness
MaxDbLen == 2
\* largest width and height the crop harness draws
MaxCropDim == 7
\* largest chunk size the crop harness draws
MaxCropSize == 4

Paths == {"a.jpg", "b.jpg"}
SampleResolutions == {1, 2}
ThumbSizes == {0, 1, 2}
Dprs == {1, 2}
Patterns == {"black", "checker"}

\* the colour a thumbnail file decodes to
ThumbColor(p) == IF p = "a.jpg" THEN Black ELSE White

ThumbnailData(path, res, colors) == [path |-> path, res |-> res, colors |-> colors]

\* get_thumb followed by rgb_thumb_to_pixels: res * res samples, row-major
get_thumb(p, res) == Uniform(ThumbColor(p), res * res)

\* sequences over S of length at most n
SeqUpTo(S, n) == UNION {[1..k -> S] : k \in 0..n}

\* the record an earlier run persisted for path p at sample resolution r
Cached(p, r) == ThumbnailData(p, r, get_thumb(p, r))

\* what ./thumbdata can deserialize to: nothing, one record, two records of one
\* resolution
CachedDbs ==
  {<<>>,
   <<Cached("a.jpg", 1)>>,
   <<Cached("b.jpg", 2)>>,
   <<Cached("a.jpg", 1), Cached("b.jpg", 1)>>}

\* one item of the glob iterator: Ok(path) or Err(GlobError)
GlobEntries ==
  {[ok |-> TRUE, path |-> p] : p \in Paths} \cup {[ok |-> FALSE, path |-> ""]}

NoCache == [p \in {} |-> 0]
NoImage == [width |-> 0, height |-> 0, px |-> [q \in {} |-> ""]]
NoCrop == [x |-> 0, y |-> 0, width |-> 0, height |-> 0]
NoChunks == [x |-> 0, y |-> 0, n |-> 0]
\* no run of main came before this one
NoRun == [ran |-> FALSE, imported |-> FALSE, writes |-> 0]

----------------------------------------------------------------------------
(* main: cache load and import (lines 74-121) *)

\* a lookup that inspects the first record only
ContainsAtFront(db, path, res) ==
  Len(db) > 0 /\ db[1].path = path /\ db[1].res = res

\* the condition of line 100-104 negated: a record with this path and res exists
Contains(db, path, res) ==
  \E i \in 1..Len(db) : db[i].path = path /\ db[i].res = res

\* a push that stores the record without its resolution
import_thumb_unkeyed(path, res, db) ==
  Append(db, ThumbnailData(path, 0, get_thumb(path, res)))

\* import_thumb's push (lines 264-268)
import_thumb(path, res, db) ==
  Append(db, ThumbnailData(path, res, get_thumb(path, res)))

\* a panic: the process ends with status 101 where it stands
Panic ==
  /\ pc' = "panic"
  /\ exit_status' = 101

\* an exit that reports every failure with status 1
ExitOne(code) ==
  /\ pc' = "exit"
  /\ exit_status' = 1

\* exit(code)
Exit(code) ==
  /\ pc' = "exit"
  /\ exit_status' = code

\* a load that treats a file it cannot deserialize like a file it cannot read
LoadCacheLenient ==
  /\ pc = "load"
  /\ thumbs_db' = (IF thumbdata.state = "valid" THEN thumbdata.thumbs ELSE <<>>)
  /\ loaded_db' = thumbs_db'
  /\ pc' = "glob"
  /\ UNCHANGED <<exit_status, algorithm, sampleres, thumbsize, dpr, thumbdata,
                 thumbdata_writes, dir, dirty_thumbs_db, target, crop, chunks,
                 tasks, thumbs_cache, cache_loads, target_image, seen_chunks,
                 output_written, pixels, best_match, width, height, previous_run>>

\* lines 80-82: fs::read failing leaves the default (empty) database; a file that
\* does not deserialize panics in expect
LoadCache ==
  /\ pc = "load"
  /\ IF thumbdata.state = "corrupt"
       THEN Panic /\ UNCHANGED <<thumbs_db, loaded_db>>
       ELSE /\ thumbs_db' = (IF thumbdata.state = "missing" THEN <<>>
                             ELSE thumbdata.thumbs)
            /\ loaded_db' = thumbs_db'
            /\ pc' = "glob"
            /\ UNCHANGED exit_status
  /\ UNCHANGED <<algorithm, sampleres, thumbsize, dpr, thumbdata, thumbdata_writes,
                 dir, dirty_thumbs_db, target, crop, chunks, tasks, thumbs_cache,
                 cache_loads, target_image, seen_chunks, output_written, pixels,
                 best_match, width, height, previous_run>>

\* line 92: glob::glob(..).expect: a malformed pattern panics
OpenGlob ==
  /\ pc = "glob"
  /\ IF ~dir.pattern_ok
       THEN Panic
       ELSE pc' = "import" /\ UNCHANGED exit_status
  /\ UNCHANGED <<algorithm, sampleres, thumbsize, dpr, thumbdata, thumbdata_writes,
                 loaded_db, dir, thumbs_db, dirty_thumbs_db, target, crop, chunks,
                 tasks, thumbs_cache, cache_loads, target_image, seen_chunks,
                 output_written, pixels, best_match, width, height, previous_run>>

\* an import loop that skips a candidate it cannot read or decode
ImportNextSkipping ==
  /\ pc = "import"
  /\ IF dir.next > Len(dir.entries) \/ ~dir.entries[dir.next].ok
       THEN /\ pc' = "persist"
            /\ dir' = (IF dir.next > Len(dir.entries) THEN dir
                       ELSE [dir EXCEPT !.next = @ + 1])
            /\ UNCHANGED <<thumbs_db, dirty_thumbs_db>>
       ELSE LET entry_path == dir.entries[dir.next].path IN
            /\ dir' = [dir EXCEPT !.next = @ + 1]
            /\ UNCHANGED pc
            /\ IF ~Contains(thumbs_db, entry_path, sampleres)
                 THEN \E loaded \in BOOLEAN :
                        IF loaded
                          THEN /\ thumbs_db' = import_thumb(entry_path, sampleres, thumbs_db)
                               /\ dirty_thumbs_db' = dirty_thumbs_db + 1
                          ELSE UNCHANGED <<thumbs_db, dirty_thumbs_db>>
                 ELSE UNCHANGED <<thumbs_db, dirty_thumbs_db>>
  /\ UNCHANGED <<exit_status, algorithm, sampleres, thumbsize, dpr, thumbdata,
                 thumbdata_writes, loaded_db, target, crop, chunks, tasks,
                 thumbs_cache, cache_loads, target_image, seen_chunks,
                 output_written, pixels, best_match, width, height, previous_run>>

\* one pass of `while let Some(Ok(thumb_entry)) = dir.next()` (lines 93-112): the
\* loop ends on None and on Some(Err(_)) alike; load_image panics on a file it
\* cannot read or decode
ImportNext ==
  /\ pc = "import"
  /\ IF dir.next > Len(dir.entries) \/ ~dir.entries[dir.next].ok
       THEN /\ pc' = "persist"
            /\ dir' = (IF dir.next > Len(dir.entries) THEN dir
                       ELSE [dir EXCEPT !.next = @ + 1])
            /\ UNCHANGED <<exit_status, thumbs_db, dirty_thumbs_db>>
       ELSE LET entry_path == dir.entries[dir.next].path IN
            /\ dir' = [dir EXCEPT !.next = @ + 1]
            /\ IF ~Contains(thumbs_db, entry_path, sampleres)
                 THEN \E loaded \in BOOLEAN :
                        IF loaded
                          THEN /\ thumbs_db' = import_thumb(entry_path, sampleres, thumbs_db)
                               /\ dirty_thumbs_db' = dirty_thumbs_db + 1
                               /\ UNCHANGED <<pc, exit_status>>
                          ELSE Panic /\ UNCHANGED <<thumbs_db, dirty_thumbs_db>>
                 ELSE UNCHANGED <<pc, exit_status, thumbs_db, dirty_thumbs_db>>
  /\ UNCHANGED <<algorithm, sampleres, thumbsize, dpr, thumbdata, thumbdata_writes,
                 loaded_db, target, crop, chunks, tasks, thumbs_cache, cache_loads,
                 target_image, seen_chunks, output_written, pixels, best_match,
                 width, height, previous_run>>

\* a persist test that lets a count of 0 through
ShouldPersistFromZero(dirty) == dirty >= 0

\* `if dirty_thumbs_db > 0` (line 114)
ShouldPersist(dirty) == dirty > 0

\* lines 114-121: fs::write of the serialized database (the write, like those
\* to stdout, is taken to succeed)
Persist ==
  /\ pc = "persist"
  /\ IF ShouldPersist(dirty_thumbs_db)
       THEN /\ thumbdata_writes' = Append(thumbdata_writes, thumbs_db)
            /\ thumbdata' = [state |-> "valid", thumbs |-> thumbs_db]
       ELSE UNCHANGED <<thumbdata, thumbdata_writes>>
  /\ pc' = "guard"
  /\ UNCHANGED exit_status
  /\ UNCHANGED <<algorithm, sampleres, thumbsize, dpr, loaded_db, dir, thumbs_db,
                 dirty_thumbs_db, target, crop, chunks, tasks, thumbs_cache,
                 cache_loads, target_image, seen_chunks, output_written, pixels,
                 best_match, width, height, previous_run>>

----------------------------------------------------------------------------
(* main: guard, target image, crop (lines 123-185) *)

\* a guard that rejects the empty database only
NotEnoughThumbsBelowOne(db) == Len(db) < 1

\* `if thumbs_db.thumbs.len() < 2` (line 123)
NotEnoughThumbs(db) == Len(db) < 2

\* lines 123-126
Guard ==
  /\ pc = "guard"
  /\ IF NotEnoughThumbs(thumbs_db)
       THEN Exit(1)
       ELSE pc' = "read_target" /\ UNCHANGED exit_status
  /\ UNCHANGED <<algorithm, sampleres, thumbsize, dpr, thumbdata, thumbdata_writes,
                 loaded_db, dir, thumbs_db, dirty_thumbs_db, target, crop, chunks,
                 tasks, thumbs_cache, cache_loads, target_image, seen_chunks,
                 output_written, pixels, best_match, width, height, previous_run>>

\* lines 132-138: fs::read of the target; exit(2) when it fails
ReadTarget ==
  /\ pc = "read_target"
  /\ target' = [target EXCEPT !.read = TRUE]
  /\ IF target.file = "unreadable"
       THEN Exit(2)
       ELSE pc' = "decode" /\ UNCHANGED exit_status
  /\ UNCHANGED <<algorithm, sampleres, thumbsize, dpr, thumbdata, thumbdata_writes,
                 loaded_db, dir, thumbs_db, dirty_thumbs_db, crop, chunks, tasks,
                 thumbs_cache, cache_loads, target_image, seen_chunks,
                 output_written, pixels, best_match, width, height, previous_run>>

\* x_chunks * y_chunks for an image of w x h (0 when thumbsize is 0: line 172
\* panics before any chunk exists)
ChunkCount(w, h, size) ==
  IF size = 0 THEN 0 ELSE (w \div size) * (h \div size)

\* lines 140-167: reader.decode().expect; the image's dimensions and content are
\* whatever the file holds
Decode ==
  /\ pc = "decode"
  /\ IF target.file = "undecodable"
       THEN Panic /\ UNCHANGED target
       ELSE \E w \in 1..MaxDim, h \in 1..MaxDim, pat \in Patterns :
              /\ ChunkCount(w, h, thumbsize) <= MaxChunks
              /\ target' = [target EXCEPT !.decoded = TRUE, !.width = w,
                                          !.height = h, !.pattern = pat]
              /\ pc' = "crop"
              /\ UNCHANGED exit_status
  /\ UNCHANGED <<algorithm, sampleres, thumbsize, dpr, thumbdata, thumbdata_writes,
                 loaded_db, dir, thumbs_db, dirty_thumbs_db, crop, chunks, tasks,
                 thumbs_cache, cache_loads, target_image, seen_chunks,
                 output_written, pixels, best_match, width, height, previous_run>>

\* a crop size that keeps the remainder instead of removing it
CropSizeRemainder(extent, size) == extent % size

\* line 172 / 173: `width - width % args.thumbsize`
CropSize(extent, size) == extent - (extent % size)

\* line 176 / 177: `(width - crop_width) / 2`
CropOffset(extent, cropped) == (extent - cropped) \div 2

\* the rectangle handed to image.crop (lines 172-180)
CropRect(w, h, size) ==
  [x      |-> CropOffset(w, CropSize(w, size)),
   y      |-> CropOffset(h, CropSize(h, size)),
   width  |-> CropSize(w, size),
   height |-> CropSize(h, size)]

\* image::RgbImage::new(w, h): every pixel zeroed; "" marks a pixel no overlay
\* has written
NewImage(w, h) ==
  [width |-> w, height |-> h,
   px |-> [q \in (0..(w - 1)) \X (0..(h - 1)) |-> ""]]

\* lines 170-190: the remainder by a thumbsize of 0 panics; otherwise the crop,
\* the canvas and the chunk counts
Crop ==
  /\ pc = "crop"
  /\ IF thumbsize = 0
       THEN Panic /\ UNCHANGED <<crop, chunks, target_image>>
       ELSE LET r == CropRect(target.width, target.height, thumbsize) IN
            /\ crop' = r
            /\ target_image' = NewImage(r.width * dpr, r.height * dpr)
            /\ chunks' = [x |-> r.width \div thumbsize,
                          y |-> r.height \div thumbsize,
                          n |-> (r.width \div thumbsize) * (r.height \div thumbsize)]
            /\ pc' = "spawn"
            /\ UNCHANGED exit_status
  /\ UNCHANGED <<algorithm, sampleres, thumbsize, dpr, thumbdata, thumbdata_writes,
                 loaded_db, dir, thumbs_db, dirty_thumbs_db, target, tasks,
                 thumbs_cache, cache_loads, seen_chunks, output_written, pixels,
                 best_match, width, height, previous_run>>

----------------------------------------------------------------------------
(* main: task fan-out, compositor loop, save (lines 187-252) *)

\* loops whose inner range is 0..x_chunks too
GridCellsInnerX(x_chunks, y_chunks) ==
  [k \in 1..(x_chunks * y_chunks) |->
     <<(k - 1) \div x_chunks, (k - 1) % x_chunks>>]

\* the (x_chunk, y_chunk) pairs in the order the nested for loops of lines
\* 195-196 visit them: x outer, y inner
GridCells(x_chunks, y_chunks) ==
  [k \in 1..(x_chunks * y_chunks) |->
     <<(k - 1) \div y_chunks, (k - 1) % y_chunks>>]

\* the colour of the target image over grid cell (x, y)
ChunkColor(pat, x, y) ==
  IF pat = "checker" /\ (x + y) % 2 = 1 THEN White ELSE Black

\* lines 349-357: the chunk resized to sampleres x sampleres, as pixels
ChunkPixels(pat, x, y, res) == Uniform(ChunkColor(pat, x, y), res * res)

\* lines 193-219: one task per pair of the loops; st is "running", then
\* "finished" (its output is ready for join_next), then "joined"
Spawn ==
  /\ pc = "spawn"
  /\ tasks' = [k \in 1..(chunks.x * chunks.y) |->
                 [x |-> GridCells(chunks.x, chunks.y)[k][1],
                  y |-> GridCells(chunks.x, chunks.y)[k][2],
                  st |-> "running", panicked |-> FALSE, best |-> 0,
                  results |-> 0, joins |-> 0]]
  /\ pc' = "join"
  /\ UNCHANGED <<exit_status, algorithm, sampleres, thumbsize, dpr, thumbdata,
                 thumbdata_writes, loaded_db, dir, thumbs_db, dirty_thumbs_db,
                 target, crop, chunks, thumbs_cache, cache_loads, target_image,
                 seen_chunks, output_written, pixels, best_match, width, height, previous_run>>

\* the body of one spawned task (lines 197-217) running to its end
TaskRun(k) ==
  /\ pc = "join"
  /\ k \in DOMAIN tasks
  /\ tasks[k].st = "running"
  /\ \E out \in TaskOutcomes(ChunkPixels(target.pattern, tasks[k].x, tasks[k].y,
                                         sampleres),
                             thumbs_db, algorithm) :
       tasks' = [tasks EXCEPT ![k].st = "finished",
                              ![k].panicked = out.panicked,
                              ![k].best = out.best,
                              ![k].results = @ + 1]
  /\ UNCHANGED <<pc, exit_status, algorithm, sampleres, thumbsize, dpr, thumbdata,
                 thumbdata_writes, loaded_db, dir, thumbs_db, dirty_thumbs_db,
                 target, crop, chunks, thumbs_cache, cache_loads, target_image,
                 seen_chunks, output_written, pixels, best_match, width, height, previous_run>>

\* an overlay that writes one row and one column past the square
OverlayWide(bottom, source, side, x, y) ==
  [bottom EXCEPT !.px =
     [q \in DOMAIN bottom.px |->
        IF /\ x <= q[1] /\ q[1] <= x + side
           /\ y <= q[2] /\ q[2] <= y + side
          THEN source ELSE bottom.px[q]]]

\* image::imageops::overlay(&mut bottom, &top, x, y) for an opaque square top of
\* the given side showing `source`: the pixels of bottom under it are replaced
Overlay(bottom, source, side, x, y) ==
  [bottom EXCEPT !.px =
     [q \in DOMAIN bottom.px |->
        IF /\ x <= q[1] /\ q[1] < x + side
           /\ y <= q[2] /\ q[2] < y + side
          THEN source ELSE bottom.px[q]]]

\* an insert that drops every other entry
CacheInsertOnly(cache, path, image) ==
  [q \in {path} |-> image]

\* thumbs_cache.insert(path, image)
CacheInsert(cache, path, image) ==
  [q \in DOMAIN cache \cup {path} |-> IF q = path THEN image ELSE cache[q]]

\* one pass of `while let Some(res) = tasks.join_next().await` (lines 221-243)
\* for a finished task k: expect panics on a task that panicked, load_image
\* panics on a thumbnail it cannot read or decode
JoinNext(k) ==
  /\ pc = "join"
  /\ k \in DOMAIN tasks
  /\ tasks[k].st = "finished"
  /\ IF tasks[k].panicked
       THEN /\ Panic
            /\ tasks' = [tasks EXCEPT ![k].st = "joined", ![k].joins = @ + 1]
            /\ UNCHANGED <<thumbs_cache, cache_loads, target_image, seen_chunks>>
       ELSE LET best == thumbs_db[tasks[k].best]
                miss == best.path \notin DOMAIN thumbs_cache
                side == thumbsize * dpr
            IN \E loaded \in BOOLEAN :
                 /\ tasks' = [tasks EXCEPT ![k].st = "joined", ![k].joins = @ + 1]
                 /\ cache_loads' =
                      (IF miss THEN CacheInsert(cache_loads, best.path,
                                      IF best.path \in DOMAIN cache_loads
                                        THEN cache_loads[best.path] + 1 ELSE 1)
                       ELSE cache_loads)
                 /\ IF miss /\ ~loaded
                      THEN /\ Panic
                           /\ UNCHANGED <<thumbs_cache, target_image, seen_chunks>>
                      ELSE /\ loaded
                           /\ thumbs_cache' =
                                (IF miss
                                   THEN CacheInsert(thumbs_cache, best.path,
                                          [source |-> best.path, side |-> side])
                                   ELSE thumbs_cache)
                           /\ target_image' =
                                Overlay(target_image,
                                        thumbs_cache'[best.path].source,
                                        thumbs_cache'[best.path].side,
                                        tasks[k].x * thumbsize * dpr,
                                        tasks[k].y * thumbsize * dpr)
                           /\ seen_chunks' = seen_chunks + 1
                           /\ UNCHANGED <<pc, exit_status>>
  /\ UNCHANGED <<algorithm, sampleres, thumbsize, dpr, thumbdata, thumbdata_writes,
                 loaded_db, dir, thumbs_db, dirty_thumbs_db, target, crop, chunks,
                 output_written, pixels, best_match, width, height, previous_run>>

\* a loop that ends as soon as one result has been consumed
JoinDoneEarly ==
  /\ pc = "join"
  /\ \E k \in DOMAIN tasks : tasks[k].st = "joined"
  /\ pc' = "save"
  /\ UNCHANGED <<exit_status, algorithm, sampleres, thumbsize, dpr, thumbdata,
                 thumbdata_writes, loaded_db, dir, thumbs_db, dirty_thumbs_db,
                 target, crop, chunks, tasks, thumbs_cache, cache_loads,
                 target_image, seen_chunks, output_written, pixels, best_match,
                 width, height, previous_run>>

\* join_next returns None once the set holds no task: the loop ends (line 243)
JoinDone ==
  /\ pc = "join"
  /\ \A k \in DOMAIN tasks : tasks[k].st = "joined"
  /\ pc' = "save"
  /\ UNCHANGED <<exit_status, algorithm, sampleres, thumbsize, dpr, thumbdata,
                 thumbdata_writes, loaded_db, dir, thumbs_db, dirty_thumbs_db,
                 target, crop, chunks, tasks, thumbs_cache, cache_loads,
                 target_image, seen_chunks, output_written, pixels, best_match,
                 width, height, previous_run>>

\* lines 248-253: target_image.save(..).expect, then main returns
Save ==
  /\ pc = "save"
  /\ \E saved \in BOOLEAN :
       IF saved
         THEN output_written' = TRUE /\ pc' = "done" /\ exit_status' = 0
         ELSE Panic /\ UNCHANGED output_written
  /\ UNCHANGED <<algorithm, sampleres, thumbsize, dpr, thumbdata, thumbdata_writes,
                 loaded_db, dir, thumbs_db, dirty_thumbs_db, target, crop, chunks,
                 tasks, thumbs_cache, cache_loads, target_image, seen_chunks,
                 pixels, best_match, width, height, previous_run>>

----------------------------------------------------------------------------
(* The run of main *)

TargetFiles == {"ok", "unreadable", "undecodable"}

\* what ./thumbdata can hold when the run starts
InitialThumbdata ==
  {[state |-> st, thumbs |-> <<>>] : st \in {"missing", "corrupt"}}
  \cup {[state |-> "valid", thumbs |-> db] : db \in CachedDbs}

\* what the glob of args.thumbs can be
InitialDir ==
  {[pattern_ok |-> FALSE, entries |-> <<>>, next |-> 1]}
  \cup {[pattern_ok |-> TRUE, entries |-> es, next |-> 1] :
          es \in SeqUpTo(GlobEntries, MaxGlob)}

\* the harness variables, unused by a run of main
HarnessIdle ==
  /\ pixels = <<>>
  /\ best_match = 0
  /\ width = 0
  /\ height = 0

\* main's locals before line 80
MainIdle ==
  /\ exit_status = -1
  /\ thumbdata_writes = <<>>
  /\ loaded_db = <<>>
  /\ dirty_thumbs_db = 0
  /\ crop = NoCrop
  /\ chunks = NoChunks
  /\ tasks = <<>>
  /\ thumbs_cache = NoCache
  /\ cache_loads = NoCache
  /\ target_image = NoImage
  /\ seen_chunks = 0
  /\ output_written = FALSE
  /\ previous_run = NoRun

Init ==
  /\ pc = "load"
  /\ algorithm \in Algorithms
  /\ sampleres \in SampleResolutions
  /\ thumbsize \in ThumbSizes
  /\ dpr \in Dprs
  /\ thumbdata \in InitialThumbdata
  /\ dir \in InitialDir
  /\ thumbs_db = <<>>
  /\ target \in {[file |-> f, read |-> FALSE, decoded |-> FALSE, width |-> 0,
                  height |-> 0, pattern |-> "none"] : f \in TargetFiles}
  /\ MainIdle
  /\ HarnessIdle

Next ==
  \/ LoadCache
  \/ OpenGlob
  \/ ImportNext
  \/ Persist
  \/ Guard
  \/ ReadTarget
  \/ Decode
  \/ Crop
  \/ Spawn
  \/ \E k \in 1..MaxChunks : TaskRun(k)
  \/ \E k \in 1..MaxChunks : JoinNext(k)
  \/ JoinDone
  \/ Save

Spec == Init /\ [][Next]_vars

\* the tokio runtime keeps running spawned tasks and main, a sequential program,
\* takes its next step whenever it has one: while some step is possible, one is
\* taken
Fairness == WF_vars(Next)

\* the runs over a cache of one or two records of resolution 1 and a glob of at
\* most one path, with sampleres 1
InitMosaic ==
  /\ Init
  /\ sampleres = 1
  /\ thumbdata.state = "valid"
  /\ thumbdata.thumbs \in {<<Cached("a.jpg", 1)>>,
                           <<Cached("a.jpg", 1), Cached("b.jpg", 1)>>}
  /\ dir.pattern_ok
  /\ dir.entries \in {<<>>, <<[ok |-> TRUE, path |-> "b.jpg"]>>}

FairSpec == InitMosaic /\ [][Next]_vars /\ Fairness

----------------------------------------------------------------------------
(* Two runs of main in a row *)

\* the first run's import loop ended without a panic: it reached line 114
ImportEnded == pc \in {"done", "exit"} \/ target.read

\* the process has ended and main is invoked once more, with the same arguments,
\* over the same glob and the ./thumbdata the first run left
RunAgain ==
  /\ pc \in {"done", "exit", "panic"}
  /\ ~previous_run.ran
  /\ previous_run' = [ran |-> TRUE, imported |-> ImportEnded,
                      writes |-> Len(thumbdata_writes)]
  /\ pc' = "load"
  /\ exit_status' = -1
  /\ thumbs_db' = <<>>
  /\ dir' = [dir EXCEPT !.next = 1]
  /\ target' = [file |-> target.file, read |-> FALSE, decoded |-> FALSE,
                width |-> 0, height |-> 0, pattern |-> "none"]
  /\ thumbdata_writes' = <<>>
  /\ loaded_db' = <<>>
  /\ dirty_thumbs_db' = 0
  /\ crop' = NoCrop
  /\ chunks' = NoChunks
  /\ tasks' = <<>>
  /\ thumbs_cache' = NoCache
  /\ cache_loads' = NoCache
  /\ target_image' = NoImage
  /\ seen_chunks' = 0
  /\ output_written' = FALSE
  /\ UNCHANGED <<algorithm, sampleres, thumbsize, dpr, thumbdata, pixels,
                 best_match, width, height>>

\* the runs with the quantized metric, chunks of one pixel and dpr 1
InitTwoRuns ==
  /\ Init
  /\ algorithm = "Rgb"
  /\ thumbsize = 1
  /\ dpr = 1

NextTwoRuns == Next \/ RunAgain

SpecTwoRuns == InitTwoRuns /\ [][NextTwoRuns]_vars

----------------------------------------------------------------------------
(* The matcher on its own: process_chunk over bounded databases and queries *)

Checker4 == <<Black, White, White, Black>>

\* records a database can hold: resolutions 1, 2 and BigRes
MatchRecords ==
  {ThumbnailData("a.jpg", 1, Uniform(Black, 1)),
   ThumbnailData("b.jpg", 1, Uniform(White, 1)),
   ThumbnailData("a.jpg", 2, Uniform(Black, 4)),
   ThumbnailData("b.jpg", 2, Uniform(White, 4)),
   ThumbnailData("c.jpg", 2, Checker4),
   ThumbnailData("d.jpg", BigRes, BigEdge),
   ThumbnailData("b.jpg", BigRes, Uniform(White, BigRes * BigRes))}

\* chunk signatures: sampleres 1, 2 and BigRes (records of resolution BigRes are
\* drawn in databases of that resolution alone, with a query of that resolution,
\* under the quantized metric)
MatchQueries ==
  {Uniform(Black, 1), Uniform(White, 1), Uniform(Black, 4), Uniform(White, 4),
   Checker4, Uniform(Black, BigRes * BigRes)}

InitMatch ==
  /\ pc = "match"
  /\ algorithm \in Algorithms
  /\ thumbs_db \in SeqUpTo(MatchRecords, MaxDbLen)
  /\ pixels \in MatchQueries
  /\ (\E i \in 1..Len(thumbs_db) : thumbs_db[i].res = BigRes)
       => /\ algorithm = "Rgb"
          /\ Len(pixels) = BigRes * BigRes
          /\ \A i \in 1..Len(thumbs_db) : thumbs_db[i].res = BigRes
  /\ Len(pixels) = BigRes * BigRes => algorithm = "Rgb"
  /\ best_match = 0
  /\ sampleres = 0 /\ thumbsize = 0 /\ dpr = 0
  /\ thumbdata = [state |-> "missing", thumbs |-> <<>>]
  /\ dir = [pattern_ok |-> TRUE, entries |-> <<>>, next |-> 1]
  /\ target = [file |-> "ok", read |-> FALSE, decoded |-> FALSE, width |-> 0,
               height |-> 0, pattern |-> "none"]
  /\ MainIdle
  /\ width = 0 /\ height = 0

\* process_chunk returns (lines 344-388)
Match ==
  /\ pc = "match"
  /\ best_match' = process_chunk(pixels, thumbs_db, algorithm)
  /\ pc' = "matched"
  /\ UNCHANGED <<exit_status, algorithm, sampleres, thumbsize, dpr, thumbdata,
                 thumbdata_writes, loaded_db, dir, thumbs_db, dirty_thumbs_db,
                 target, crop, chunks, tasks, thumbs_cache, cache_loads,
                 target_image, seen_chunks, output_written, pixels, width, height, previous_run>>

\* a build with overflow checks panics inside compare_thumbs_u8 (line 307)
MatchOverflow ==
  /\ pc = "match"
  /\ ChunkOverflows(pixels, thumbs_db, algorithm)
  /\ Panic
  /\ UNCHANGED <<algorithm, sampleres, thumbsize, dpr, thumbdata,
                 thumbdata_writes, loaded_db, dir, thumbs_db, dirty_thumbs_db,
                 target, crop, chunks, tasks, thumbs_cache, cache_loads,
                 target_image, seen_chunks, output_written, pixels, best_match,
                 width, height, previous_run>>

NextMatch == Match \/ MatchOverflow

SpecMatch == InitMatch /\ [][NextMatch]_vars

----------------------------------------------------------------------------
(* The crop on its own: lines 170-180 over bounded dimensions *)

InitCrop ==
  /\ pc = "crop"
  /\ width \in 0..MaxCropDim
  /\ height \in 0..MaxCropDim
  /\ thumbsize \in 1..MaxCropSize
  /\ algorithm = "Rgb" /\ sampleres = 0 /\ dpr = 1
  /\ thumbdata = [state |-> "missing", thumbs |-> <<>>]
  /\ dir = [pattern_ok |-> TRUE, entries |-> <<>>, next |-> 1]
  /\ thumbs_db = <<>>
  /\ target = [file |-> "ok", read |-> TRUE, decoded |-> TRUE, width |-> width,
               height |-> height, pattern |-> "black"]
  /\ MainIdle
  /\ pixels = <<>> /\ best_match = 0

SpecCrop == InitCrop /\ [][Crop]_vars

----------------------------------------------------------------------------
(* Claims about the matcher and the quantized metric (SpecMatch) *)

\* the score of record i for the query of the state
ScoreOf(i) == Score(algorithm, pixels, thumbs_db[i])

\* C1: for a non-empty database, process_chunk returns a member of the database
\* (never None) whose score is the minimum over all records, and among the
\* records with that score the one of lowest index.
C1_ReturnsFirstMinimum ==
  (pc = "matched" /\ Len(thumbs_db) > 0) =>
    /\ best_match \in 1..Len(thumbs_db)
    /\ \A i \in 1..Len(thumbs_db) : ScoreOf(best_match) <= ScoreOf(i)
    /\ \A i \in 1..(best_match - 1) : ScoreOf(i) > ScoreOf(best_match)

\* C1 holds of every database in which some record scores below the first
\* best_score
C1_HoldsBelowSentinel ==
  (/\ pc = "matched"
   /\ \E i \in 1..Len(thumbs_db) : ScoreOf(i) < InitialBestScore(algorithm)) =>
    /\ best_match \in 1..Len(thumbs_db)
    /\ \A i \in 1..Len(thumbs_db) : ScoreOf(best_match) <= ScoreOf(i)
    /\ \A i \in 1..(best_match - 1) : ScoreOf(i) > ScoreOf(best_match)

\* C2: when some record has a signature of the query's length, process_chunk
\* never returns a record whose signature length differs from the query's.
C2_WinnerHasQueryLength ==
  (/\ pc = "matched"
   /\ best_match # 0
   /\ \E i \in 1..Len(thumbs_db) : Len(thumbs_db[i].colors) = Len(pixels)) =>
    Len(thumbs_db[best_match].colors) = Len(pixels)

\* C3: compare_thumbs_u8(a, b) is i32::MAX whenever a.len() != b.len().
C3_MismatchGivesMax ==
  (pc = "matched" /\ algorithm = "Rgb") =>
    \A i \in 1..Len(thumbs_db) :
      Len(thumbs_db[i].colors) # Len(pixels) =>
        compare_thumbs_u8(pixels, thumbs_db[i].colors) = I32Max

----------------------------------------------------------------------------
(* Claims about the run of main (Spec, FairSpec) and the crop (SpecCrop) *)

\* records appended by the import loop of this run
Appended == Len(thumbs_db) - Len(loaded_db)

\* main is past line 121
PastPersist ==
  pc \in {"guard", "read_target", "decode", "crop", "spawn", "join", "save",
          "done", "exit"}

\* C4: the cache file is written if and only if the import loop appended at
\* least one record: at most one write, only after an append and then of the full
\* record set; once the run is past the persist step, an append implies the write.
C4_CacheWrittenIffAppended ==
  /\ Len(thumbdata_writes) <= 1
  /\ thumbdata_writes # <<>> =>
       /\ Appended > 0
       /\ thumbdata_writes[1] = thumbs_db
       /\ thumbdata = [state |-> "valid", thumbs |-> thumbs_db]
  /\ (thumbdata_writes = <<>> /\ pc # "load" /\ thumbdata.state = "valid") =>
       thumbdata.thumbs = loaded_db
  /\ (PastPersist /\ Appended > 0) => thumbdata_writes # <<>>

\* a run that loaded records, appended to them and wrote the whole set
C4_Witness ==
  /\ pc = "guard"
  /\ Len(loaded_db) > 0
  /\ Appended > 0
  /\ thumbdata_writes = <<thumbs_db>>

\* no two records share (path, res)
UniqueKeys(db) ==
  \A i, j \in 1..Len(db) :
    i # j => ~(db[i].path = db[j].path /\ db[i].res = db[j].res)

\* C5: if the loaded database has no two records with the same (path, res),
\* then after every append of the import loop the database has none either,
\* whatever the glob yields (a path yielded twice included).
C5_ImportKeepsKeysUnique == UniqueKeys(loaded_db) => UniqueKeys(thumbs_db)

\* the glob yielded one path twice, onto a loaded database, and a record was
\* appended
C5_Witness ==
  /\ pc = "persist"
  /\ Len(loaded_db) > 0
  /\ UniqueKeys(loaded_db)
  /\ Appended > 0
  /\ Len(dir.entries) = 2
  /\ dir.entries[1].ok
  /\ dir.entries[1] = dir.entries[2]
  /\ dir.next = 3

\* C6: with fewer than 2 records after import the run ends in exit(1), and at
\* that exit the target image has not been read, no task has been spawned and
\* nothing has been written as output, whatever state the target file is in.
C6_TooFewThumbsExitsFirst ==
  [][/\ (pc = "persist" /\ Len(thumbs_db) < 2) =>
          (pc' = "guard" /\ thumbs_db' = thumbs_db)
     /\ (pc = "guard" /\ Len(thumbs_db) < 2) =>
          (pc' = "exit" /\ exit_status' = 1)
     /\ exit_status' = 1 =>
          (~target'.read /\ ~target'.decoded /\ tasks' = <<>> /\ ~output_written')
    ]_vars

\* exit(1) with one record and a target file that would not decode
C6_Witness ==
  /\ pc = "exit"
  /\ exit_status = 1
  /\ Len(thumbs_db) = 1
  /\ target.file = "undecodable"

\* records stored at resolution res
UsableCount(db, res) == Cardinality({i \in 1..Len(db) : db[i].res = res})

\* main is past the import loop and has not panicked
ImportOver == pc = "persist" \/ PastPersist

\* C7: if after import fewer than 2 records have the configured sample
\* resolution, the run ends in exit(1) and no match task is spawned.
C7_TooFewUsableExits ==
  (ImportOver /\ UsableCount(thumbs_db, sampleres) < 2) =>
    /\ pc \in {"persist", "guard", "exit"}
    /\ pc = "exit" => exit_status = 1
    /\ tasks = <<>>

\* C8: when the cropped width or height is zero the run ends in a fatal error
\* and never reaches the save step or a normal exit.
C8_ZeroCropIsFatal ==
  (/\ target.decoded
   /\ thumbsize > 0
   /\ CropSize(target.width, thumbsize) = 0
        \/ CropSize(target.height, thumbsize) = 0) =>
    pc \notin {"save", "done"}

\* C9: the crop's width and height are the largest multiples of thumbsize not
\* above the image's, its offset is ((W - cropW) / 2, (H - cropH) / 2), and the
\* pixels removed on opposite sides differ by at most 1.
C9_CropIsCentredLargestMultiple ==
  pc = "spawn" =>
    LET W == target.width
        H == target.height
        right == (W - crop.width) - crop.x
        bottom == (H - crop.height) - crop.y
    IN /\ crop.width % thumbsize = 0
       /\ crop.width <= W /\ W < crop.width + thumbsize
       /\ crop.height % thumbsize = 0
       /\ crop.height <= H /\ H < crop.height + thumbsize
       /\ crop.x = (W - crop.width) \div 2
       /\ crop.y = (H - crop.height) \div 2
       /\ right - crop.x \in {0, 1}
       /\ bottom - crop.y \in {0, 1}

\* a 7 x 5 image cropped to 4 x 4: 1 and 2 columns removed, 0 and 1 rows
C9_Witness ==
  /\ pc = "spawn"
  /\ target.width = 7 /\ target.height = 5 /\ thumbsize = 4
  /\ crop = [x |-> 1, y |-> 0, width |-> 4, height |-> 4]

\* the tasks spawned for grid cell (x, y)
TasksOf(x, y) == {k \in DOMAIN tasks : tasks[k].x = x /\ tasks[k].y = y}

\* lines 195-219 have run
Spawned == pc \in {"join", "save", "done"} \/ tasks # <<>>

\* exactly one task per cell of the grid, and no task outside it
OneTaskPerCell ==
  /\ Len(tasks) = (crop.width \div thumbsize) * (crop.height \div thumbsize)
  /\ \A x \in 0..((crop.width \div thumbsize) - 1),
        y \in 0..((crop.height \div thumbsize) - 1) :
       Cardinality(TasksOf(x, y)) = 1

\* a task yields at most one result, which join_next hands over at most once
AtMostOnce ==
  \A k \in DOMAIN tasks :
    /\ tasks[k].results = (IF tasks[k].st = "running" THEN 0 ELSE 1)
    /\ tasks[k].joins = (IF tasks[k].st = "joined" THEN 1 ELSE 0)

\* the compositor loop is over and every chunk was composited
LoopEndedComplete ==
  /\ pc \in {"save", "done"}
  /\ seen_chunks = chunks.n
  /\ seen_chunks = Len(tasks)
  /\ \A k \in DOMAIN tasks :
       tasks[k].results = 1 /\ tasks[k].joins = 1 /\ ~tasks[k].panicked

\* C10 as stated: every run that reaches the matching phase ends the join loop
\* with the number of composited chunks equal to the chunk count; for a finite
\* run: once tasks were spawned and main is no longer in the loop, every chunk has
\* been composited.
C10_EveryRunCompositesAll ==
  (tasks # <<>> /\ pc # "join") => seen_chunks = chunks.n

\* C10 as amended: one task per grid cell, each yielding at most one result that
\* is consumed at most once; seen_chunks never exceeds the results consumed; and
\* under fair scheduling the loop ends with every chunk composited, each task
\* having yielded one result consumed once, unless the run panics.
C10_OneTaskPerCellThenAllOrPanic ==
  /\ [](Spawned => OneTaskPerCell /\ AtMostOnce)
  /\ [](seen_chunks <= Cardinality({k \in DOMAIN tasks : tasks[k].joins = 1}))
  /\ [](pc \in {"save", "done"} => LoopEndedComplete)
  /\ (pc = "join") ~> (LoopEndedComplete \/ pc = "panic")

\* a 2 x 2 grid of a checkered target: four tasks, four results, each consumed
\* once, all composited from two cached thumbnails
C10_Witness ==
  /\ pc = "save"
  /\ chunks = [x |-> 2, y |-> 2, n |-> 4]
  /\ LoopEndedComplete
  /\ Cardinality(DOMAIN thumbs_cache) = 2

----------------------------------------------------------------------------
(* Claims about the compositor (Spec) *)

\* `args.thumbsize * args.dpr` (lines 226-227, 235-236): the side of a resized
\* thumbnail and the step of the overlay offsets
Side == thumbsize * dpr

\* the canvas pixels under the overlay of grid cell (x, y)
Square(x, y) ==
  {q \in DOMAIN target_image.px :
     /\ x * Side <= q[1] /\ q[1] < (x + 1) * Side
     /\ y * Side <= q[2] /\ q[2] < (y + 1) * Side}

\* the path of the record process_chunk selects for grid cell (x, y)
WinnerOf(x, y) ==
  thumbs_db[process_chunk(ChunkPixels(target.pattern, x, y, sampleres),
                          thumbs_db, algorithm)].path

\* the task join_next hands over in this step
JoinedNow(k) ==
  /\ k \in DOMAIN tasks
  /\ tasks[k].st = "finished"
  /\ tasks'[k].st = "joined"

\* C11: the final canvas is the same for every completion order: the squares of
\* two different chunks are disjoint and together cover the canvas, a result
\* changes no pixel outside its own square, and once the loop has ended every
\* pixel shows the winner of the cell it lies in, a function of the database, the
\* target and the configuration alone.
C11_CanvasIsOrderIndependent ==
  /\ [](Spawned =>
          /\ \A j, k \in DOMAIN tasks :
               j # k => Square(tasks[j].x, tasks[j].y)
                          \cap Square(tasks[k].x, tasks[k].y) = {}
          /\ UNION {Square(tasks[k].x, tasks[k].y) : k \in DOMAIN tasks}
               = DOMAIN target_image.px)
  /\ [][pc = "join" =>
          \A k \in DOMAIN tasks :
            JoinedNow(k) =>
              \A q \in DOMAIN target_image.px \ Square(tasks[k].x, tasks[k].y) :
                target_image'.px[q] = target_image.px[q]]_vars
  /\ [](pc \in {"save", "done"} =>
          \A q \in DOMAIN target_image.px :
            target_image.px[q] = WinnerOf(q[1] \div Side, q[2] \div Side))

\* a 2 x 2 grid at dpr 2, fully composited from two different thumbnails
C11_Witness ==
  /\ pc = "save"
  /\ dpr = 2
  /\ chunks.n = 4
  /\ target_image.width = 4 /\ target_image.height = 4
  /\ target_image.px[<<0, 0>>] = "a.jpg"
  /\ target_image.px[<<3, 1>>] = "b.jpg"
  /\ target_image.px[<<3, 3>>] = "a.jpg"

\* C12: the output file is written only by the save step, in a state where every
\* chunk has been matched and composited; a run that ends in exit(1), exit(2) or
\* a panic anywhere before the save step has written no output file.
C12_OutputOnlyAfterAllComposited ==
  /\ [](output_written =>
          pc = "done" /\ exit_status = 0 /\ LoopEndedComplete)
  /\ [][(output_written' /\ ~output_written) =>
          /\ pc = "save"
          /\ seen_chunks = chunks.n
          /\ \A k \in DOMAIN tasks : tasks[k].st = "joined" /\ tasks[k].best # 0]_vars
  /\ [][(pc # "save" /\ exit_status' \in {1, 2, 101}) => ~output_written']_vars

\* a run that panicked in the compositor loop with some but not all chunks on
\* the canvas, and wrote nothing
C12_Witness ==
  /\ pc = "panic"
  /\ seen_chunks > 0
  /\ seen_chunks < chunks.n
  /\ ~output_written

\* C13: a cache file that is read but does not deserialize ends the run in a
\* panic at the load, with nothing imported, nothing appended and the file not
\* written; a cache file that cannot be read leaves an empty database and the run
\* goes on to the glob and the import loop.
C13_CorruptAbortsUnreadableStartsEmpty ==
  /\ [](thumbdata.state = "corrupt" =>
          /\ pc \in {"load", "panic"}
          /\ thumbs_db = <<>>
          /\ dir.next = 1
          /\ dirty_thumbs_db = 0
          /\ thumbdata_writes = <<>>)
  /\ [][(pc = "load" /\ thumbdata.state = "corrupt") =>
          (pc' = "panic" /\ exit_status' = 101 /\ thumbdata' = thumbdata)]_vars
  /\ [][(pc = "load" /\ thumbdata.state = "missing") =>
          (pc' = "glob" /\ exit_status' = -1 /\ thumbs_db' = <<>>)]_vars
  /\ [][(pc = "glob" /\ dir.pattern_ok) =>
          (pc' = "import" /\ thumbs_db' = thumbs_db /\ dir'.next = 1)]_vars

\* a panic at the load of a corrupt cache with two candidates waiting in the glob
C13_Witness ==
  /\ pc = "panic"
  /\ thumbdata.state = "corrupt"
  /\ Len(dir.entries) = 2
  /\ dir.entries[1].ok /\ dir.entries[2].ok

\* the run panicked inside the import loop
ImportAborted ==
  /\ pc = "panic"
  /\ thumbdata.state # "corrupt"
  /\ dir.pattern_ok
  /\ ~target.read

\* C14: a candidate absent from the database that cannot be read or decoded ends
\* the run where it stands: a candidate the loop has passed has a record unless
\* the run aborted at it, the abort appends nothing, no step follows it, the
\* cache file was not written (records appended earlier in the run are lost) and
\* no task was spawned.
C14_BadCandidateAbortsRun ==
  /\ [](\A i \in 1..(dir.next - 1) :
          (i <= Len(dir.entries) /\ dir.entries[i].ok) =>
            \/ Contains(thumbs_db, dir.entries[i].path, sampleres)
            \/ ImportAborted /\ i = dir.next - 1)
  /\ [][(pc = "import" /\ pc' = "panic") =>
          /\ dir.entries[dir.next].ok
          /\ ~Contains(thumbs_db, dir.entries[dir.next].path, sampleres)
          /\ thumbs_db' = thumbs_db
          /\ dirty_thumbs_db' = dirty_thumbs_db
          /\ exit_status' = 101]_vars
  /\ [][pc # "panic"]_vars
  /\ [](ImportAborted =>
          /\ thumbdata_writes = <<>>
          /\ thumbdata.state = "valid" => thumbdata.thumbs = loaded_db
          /\ Appended = dirty_thumbs_db
          /\ tasks = <<>>
          /\ ~output_written)

\* the first candidate was appended, the second could not be read: the run is
\* over and the appended record was never written to the cache
C14_Witness ==
  /\ ImportAborted
  /\ dir.next = 3
  /\ Appended = 1
  /\ thumbdata_writes = <<>>
  /\ thumbdata.state = "missing"

\* every path the import loop is handed (the entries before the first Err) has a
\* record of the configured resolution in db
AllCandidatesIn(db) ==
  \A i \in 1..Len(dir.entries) :
    (\A j \in 1..i : dir.entries[j].ok) =>
      Contains(db, dir.entries[i].path, sampleres)

\* the cache has been loaded (or found unreadable) in this run
Loaded == pc # "load" /\ thumbdata.state # "corrupt"

\* C15: when the loaded database holds (path, sampleres) for every candidate, the
\* import appends nothing, the record sequence stays as loaded and the cache file
\* is not written; so a run that follows a run whose import loop ran to its end,
\* over the same glob and resolution, never writes the cache: of two runs in a
\* row only the first can write it.
C15_ImportIsIdempotent ==
  /\ (Loaded /\ AllCandidatesIn(loaded_db)) =>
       /\ thumbs_db = loaded_db
       /\ dirty_thumbs_db = 0
       /\ thumbdata_writes = <<>>
  /\ (previous_run.ran /\ previous_run.imported) =>
       /\ thumbdata_writes = <<>>
       /\ dirty_thumbs_db = 0
       /\ Loaded => (AllCandidatesIn(loaded_db) /\ thumbs_db = loaded_db)

\* the second of two runs over two candidates, past its persist step: the first
\* run imported both and wrote the cache, this one loaded them and wrote nothing
C15_Witness ==
  /\ previous_run.ran
  /\ previous_run.writes = 1
  /\ pc = "guard"
  /\ Len(loaded_db) = 2
  /\ dir.next = 3
  /\ dir.entries[1].ok /\ dir.entries[2].ok
  /\ dir.entries[1] # dir.entries[2]
  /\ thumbdata_writes = <<>>

----------------------------------------------------------------------------
(* Further claims about the quantized metric (SpecMatch) *)

\* C16: for signatures of equal length compare_thumbs_u8(a, a) = 0 and
\* compare_thumbs_u8(a, b) = compare_thumbs_u8(b, a); checked of the query and
\* every record of its length.
C16_SelfZeroAndSymmetric ==
  (pc = "matched" /\ algorithm = "Rgb") =>
    /\ compare_thumbs_u8(pixels, pixels) = 0
    /\ \A i \in 1..Len(thumbs_db) :
         Len(thumbs_db[i].colors) = Len(pixels) =>
           /\ compare_thumbs_u8(thumbs_db[i].colors, thumbs_db[i].colors) = 0
           /\ compare_thumbs_u8(pixels, thumbs_db[i].colors)
                = compare_thumbs_u8(thumbs_db[i].colors, pixels)

\* a checkered query matched against an all-white record of its length: the
\* distance both ways is 2 * 3 * 255^2
C16_Witness ==
  /\ pc = "matched"
  /\ algorithm = "Rgb"
  /\ pixels = Checker4
  /\ Len(thumbs_db) = 2
  /\ thumbs_db[2].colors = Uniform(White, 4)
  /\ compare_thumbs_u8(pixels, thumbs_db[2].colors) = 390150
  /\ compare_thumbs_u8(thumbs_db[2].colors, pixels) = 390150

----------------------------------------------------------------------------
(* Further claims about the run of main (Spec) *)

\* C17: with at least 2 records and a target file that cannot be read the run
\* ends in exit(2), a status that is neither 0 nor the 1 of too few thumbnails,
\* with the target not decoded, no canvas, no task spawned and no output written.
C17_UnreadableTargetExitsTwo ==
  /\ [][(pc = "guard" /\ Len(thumbs_db) >= 2 /\ target.file = "unreadable") =>
          pc' = "read_target"]_vars
  /\ [][(pc = "read_target" /\ target.file = "unreadable") =>
          (pc' = "exit" /\ exit_status' = 2)]_vars
  /\ [](exit_status = 2 =>
          /\ pc = "exit"
          /\ target.file = "unreadable"
          /\ Len(thumbs_db) >= 2
          /\ ~target.decoded
          /\ target_image = NoImage
          /\ tasks = <<>>
          /\ ~output_written)
  /\ [](exit_status = 1 => Len(thumbs_db) < 2)

\* exit(2) with two records in the database, one of them imported in this run
C17_Witness ==
  /\ pc = "exit"
  /\ exit_status = 2
  /\ Len(thumbs_db) = 2
  /\ Appended = 1

\* C18: for signatures of equal length the accumulator of compare_thumbs_u8
\* never leaves the range of i32: no `diff +=` overflows and the result is the
\* non-negative sum of the squared differences.
C18_AccumulatorStaysInRange ==
  (pc \in {"matched", "panic"} /\ algorithm = "Rgb") =>
    \A i \in 1..Len(thumbs_db) :
      Len(thumbs_db[i].colors) = Len(pixels) =>
        /\ ~OverflowsU8(pixels, thumbs_db[i].colors)
        /\ compare_thumbs_u8(pixels, thumbs_db[i].colors) >= 0

\* C19: once the import loop has ended without a panic every path the glob
\* yields, those after an Err item included, has a record of the configured
\* resolution.
C19_EveryCandidateImported ==
  ImportOver =>
    \A i \in 1..Len(dir.entries) :
      dir.entries[i].ok => Contains(thumbs_db, dir.entries[i].path, sampleres)

\* C20: during compositing thumbs_cache only grows: a step keeps every entry as
\* it was, a new entry is keyed by the path of the winner joined in that step
\* and holds that path's image resized to the side of a square, load_image runs
\* at most once per path, and the square of a consumed result shows the cached
\* image of its winner's path.
C20_ThumbCacheOnlyGrows ==
  /\ [][/\ DOMAIN thumbs_cache \subseteq DOMAIN thumbs_cache'
        /\ \A p \in DOMAIN thumbs_cache : thumbs_cache'[p] = thumbs_cache[p]
        /\ \A p \in DOMAIN thumbs_cache' \ DOMAIN thumbs_cache :
             \E k \in DOMAIN tasks :
               /\ JoinedNow(k)
               /\ tasks[k].best # 0
               /\ thumbs_db[tasks[k].best].path = p
        /\ \A k \in DOMAIN tasks :
             (JoinedNow(k) /\ pc' = "join") =>
               LET p == thumbs_db[tasks[k].best].path IN
               /\ p \in DOMAIN thumbs_cache'
               /\ \A q \in Square(tasks[k].x, tasks[k].y) :
                    /\ target_image'.px[q] = thumbs_cache'[p].source
                    /\ target_image'.px[q] = p]_vars
  /\ [](\A p \in DOMAIN thumbs_cache :
          thumbs_cache[p] = [source |-> p, side |-> Side])
  /\ [](/\ DOMAIN thumbs_cache \subseteq DOMAIN cache_loads
        /\ \A p \in DOMAIN cache_loads : cache_loads[p] = 1)

\* three chunks composited from two cached thumbnails, each loaded once: one
\* overlay was served from the cache
C20_Witness ==
  /\ pc = "join"
  /\ seen_chunks = 3
  /\ DOMAIN thumbs_cache = {"a.jpg", "b.jpg"}
  /\ cache_loads["a.jpg"] = 1 /\ cache_loads["b.jpg"] = 1

====
